---- MODULE Spec2Model ----
(***************************************************************************)
(* Model of the in-memory video generation job engine of VeoFlow_Backend:  *)
(* GoogleVideoService (generateVideo, processVideoGeneration,              *)
(* createPlaceholderVideo, getVideoStatus, getVideoUrl) together with the  *)
(* GCSService calls it makes.                                              *)
(*                                                                         *)
(* The service runs on a single-threaded event loop: the code between two  *)
(* awaits runs without interleaving, so every action below is one such     *)
(* synchronous segment, and pc[j] names the await at which the driving     *)
(* sequence of job j is suspended.  External calls (auth, provider,        *)
(* storage) resolve or reject nondeterministically.  In Spec the local     *)
(* filesystem is healthy: mkdirSync and writeFileSync do not throw; FsSpec *)
(* adds a filesystem that may refuse writes.  QuotaSpec models the callers *)
(* of generateVideo: VideoGenerationService.queueVideoGeneration and the   *)
(* generate-video handler, with the usage counter of one user.             *)
(* ExtractSpec applies the artifact extraction to every shape of terminal  *)
(* result; AuditSpec counts token acquisitions and poll requests;          *)
(* ConcurrentSpec interleaves the driving sequences of several jobs;       *)
(* ClockSpec and TimedQuerySpec let Date.now() advance between steps.      *)
(* StorageSpec records the storage key of each upload; RetrySpec models    *)
(* VideoGenerationService.failVideoGeneration on one persisted job;        *)
(* SceneSpec models addSceneToProject and deleteScene on one project.      *)
(***************************************************************************)
EXTENDS Integers, Sequences, FiniteSets, TLC

\* ------------------------------------------------------------------ bounds
MaxJobs == 1

MaxRequests == 2

\* jobs running side by side where concurrency is studied
MaxConcurrent == 2

\* poll iterations followed where token acquisitions are counted
MaxAuditPolls == 6

\* failVideoGeneration calls made for one job
MaxFailCalls == 3

\* ------------------------------------------------------- program constants
maxPolls == 120
PlaceholderSize == 1548
\* apiQuota.videosPerMonth: the schema default
videosPerMonth == 5
\* VideoGenerationJob.maxRetries: the schema default
maxRetries == 3

\* the generation requests a user makes
Requests == 1..MaxRequests
\* the failVideoGeneration calls made for one job
FailCalls == 1..MaxFailCalls

\* SceneSpec: at most MaxSceneCalls calls of addSceneToProject and deleteScene
\* on a project that starts with at most MaxInitialScenes scenes
MaxSceneCalls == 3
MaxInitialScenes == 2
SceneCalls == 1..MaxSceneCalls
\* scene k of the initial project has _id k, the scene created by call c has
\* _id MaxInitialScenes + c
SceneIds == 1..(MaxInitialScenes + MaxSceneCalls)

\* --------------------------------------------------------------- JS values
Undefined == "undefined"
Null == "null"

\* JS truthiness of a field that holds undefined, null or a non-empty string
Truthy(v) == v \notin {Undefined, Null}

JobId(n) == "job_" \o ToString(n)
JobIds == {JobId(n) : n \in 1..MaxJobs}
\* every identifier generateJobId may issue: one per direct call and one per
\* generation request
AllJobIds ==
  LET m == IF MaxJobs > MaxRequests THEN MaxJobs ELSE MaxRequests
  IN {JobId(n) : n \in 1..(IF m > MaxConcurrent THEN m ELSE MaxConcurrent)}
\* the identifiers of the jobs that run side by side
ConcurrentIds == {JobId(n) : n \in 1..MaxConcurrent}
\* identifiers a caller may ask about: every job id and one never issued
QueryIds == {JobId(n) : n \in 1..(MaxJobs + 1)}

\* `uploads/videos/${jobId}.mp4`
LocalPath(j) == "uploads/videos/" \o j \o ".mp4"

\* `videos/${projectId}/${timestamp}.mp4`: the key does not depend on the job
GcsFileName(projectId, timestamp) ==
  "videos/" \o projectId \o "/" \o ToString(timestamp) \o ".mp4"
\* the signed URL returned by uploadVideo, and one minted later by a query
UploadSignedUrl == "signed-url@upload"
FreshSignedUrl == "signed-url@query"

\* --------------------------------------------------------- error messages
ErrAuth == "auth request failed"
ErrNoToken == "Failed to get access token"
ErrSubmit == "submit request failed"
ErrPoll == "poll request failed"
ErrApi == "Veo 3 API error"
ErrTimeout == "Video generation timeout - operation took too long"
ErrNoVideoContent == "No video content in videos array"
ErrNoPredictionContent == "No video content in prediction"
ErrNoContent == "No video content in response"
ErrType == "TypeError"
ErrFs == "EACCES: permission denied"
ErrNotConfigured ==
  "Video generation failed: Google Service Account Key not configured"

\* ------------------------------------------------- provider result shapes
\* A value of a bytesBase64Encoded / video field: undefined, a number, or a
\* string given by its characters.
JsUndefined == [kind |-> "undefined", chars |-> <<>>]
JsNumber == [kind |-> "number", chars |-> <<>>]
JsString(s) == [kind |-> "string", chars |-> s]

Base64Strings == {<<>>, <<"=">>, <<"A", "A", "A", "A">>}
FieldValues == {JsUndefined, JsNumber} \cup {JsString(s) : s \in Base64Strings}

\* !v for such a value: undefined and "" are falsy
FieldTruthy(v) == v.kind = "number" \/ (v.kind = "string" /\ Len(v.chars) > 0)

\* number of characters before the first padding character
RECURSIVE DataChars(_)
DataChars(s) ==
  IF s = <<>> \/ Head(s) = "=" THEN 0 ELSE 1 + DataChars(Tail(s))

\* Buffer.from(s, 'base64').length: 6 bits per character, whole bytes only
DecodedLen(s) == (DataChars(s) * 6) \div 8

\* a list field of the result: absent, or a list of at most one element
AbsentList == [present |-> FALSE, items |-> <<>>]
ListOf(x) == [present |-> TRUE, items |-> <<x>>]

EmptyList == [present |-> TRUE, items |-> <<>>]
VideoObject(f) == [bytesBase64Encoded |-> f]
Prediction(v, f) == [video |-> v, bytesBase64Encoded |-> f]
GoodBase64 == JsString(<<"A", "A", "A", "A">>)

\* data.response of a done operation; defined = FALSE when it is missing
NoResult == [defined |-> FALSE, videos |-> AbsentList, predictions |-> AbsentList]
Result(v, p) == [defined |-> TRUE, videos |-> v, predictions |-> p]

\* the responses tried: no response at all, no list or empty lists, every
\* content of a videos entry, and predictions entries behind a videos list
\* that is absent or carries an entry without content
Results ==
  {NoResult, Result(AbsentList, AbsentList), Result(EmptyList, EmptyList)}
  \cup {Result(ListOf(VideoObject(f)), AbsentList) : f \in FieldValues}
  \cup {Result(v, ListOf(p)) :
          v \in {AbsentList, ListOf(VideoObject(JsUndefined))},
          p \in {Prediction(GoodBase64, JsUndefined),
                 Prediction(JsUndefined, GoodBase64),
                 Prediction(JsUndefined, JsString(<<"=">>)),
                 Prediction(JsUndefined, JsUndefined)}}

\* startResponse.data: {done, response}, or {done: false, name}
SubmitResponses ==
  {[done |-> FALSE, response |-> NoResult]}
  \cup {[done |-> TRUE, response |-> r] : r \in Results}

\* opResponse.data: still running, a reported error, a done operation with its
\* response, or a done operation that carries an error and no response
PollResponses ==
  {[done |-> FALSE, error |-> e, response |-> NoResult] : e \in BOOLEAN}
  \cup {[done |-> TRUE, error |-> FALSE, response |-> r] : r \in Results}
  \cup {[done |-> TRUE, error |-> TRUE, response |-> NoResult]}

\* result.videos && result.videos.length > 0
NonEmptyList(l) == l.present /\ Len(l.items) > 0

\* decoding one field: the bytes written, or the error thrown
DecodeField(v, missing) ==
  IF ~FieldTruthy(v) THEN [ok |-> FALSE, size |-> 0, error |-> missing]
  ELSE IF v.kind # "string" THEN [ok |-> FALSE, size |-> 0, error |-> ErrType]
  ELSE [ok |-> TRUE, size |-> DecodedLen(v.chars), error |-> Undefined]

\* prediction.video || prediction.bytesBase64Encoded
PredictionField(p) == IF FieldTruthy(p.video) THEN p.video ELSE p.bytesBase64Encoded

\* the extraction of lines 197-237: which bytes are written, or which error
Extract(result) ==
  IF ~result.defined THEN [ok |-> FALSE, size |-> 0, error |-> ErrType]
  ELSE IF NonEmptyList(result.videos)
    THEN DecodeField(result.videos.items[1].bytesBase64Encoded, ErrNoVideoContent)
  ELSE IF NonEmptyList(result.predictions)
    THEN DecodeField(PredictionField(result.predictions.items[1]), ErrNoPredictionContent)
  ELSE [ok |-> FALSE, size |-> 0, error |-> ErrNoContent]

\* -------------------------------------------------------------- the state
VARIABLES
  keyFilePath,    \* GOOGLE_APPLICATION_CREDENTIALS is set
  jobs,           \* this.jobs: job id -> job record
  files,          \* the file uploads/videos/<jobId>.mp4 of each job
  pc,             \* the await at which each driving sequence is suspended
  pollCount,      \* the local pollCount of each driving sequence
  lastPoll,       \* history: the latest answer of the provider per job
  thrown,         \* history: the error that entered the catch block per job
  uploadOutcome,  \* history: outcome of gcsService.uploadVideo per job
  reply,          \* what the call made in this step returned or threw
  fsOk,           \* mkdirSync and writeFileSync under uploads/videos succeed
  videosThisMonth, \* user.apiUsage.videosThisMonth as stored in the database
  accepted,       \* history: jobs googleVideoService registered for the user
  qpc,            \* the await at which each generation request is suspended
  snapshot,       \* the `user` document each queueVideoGeneration call read
  now,            \* Date.now(), in milliseconds
  args,           \* the prompt and options the caller passes to generateVideo
  counts,         \* history: token acquisitions, poll requests and upload
                  \* calls per job
  extraction,     \* a terminal result and what the extraction makes of it
  fileName,       \* the key chosen by the uploadVideo call of each job
  jobDoc,         \* the persisted VideoGenerationJob: status and retryCount
  fcall,          \* each failVideoGeneration call: its await, the retryCount
                  \* it read and the retryCount of the document it got back
  requeued,       \* history: how often the job was saved as queued again
  sceneStatus,    \* videoStatus of the scene
  records,        \* the VideoGenerationJob document each request has saved
  before,         \* history: usage and scene status when each
                  \* queueVideoGeneration call was made
  scenes,         \* the Scene documents of the project: existence and order
  projectScenes,  \* project.scenes, the scene ids the project refers to
  scall           \* each addSceneToProject or deleteScene call: its await,
                  \* the count it read, the scene it is about

retryVars == <<jobDoc, fcall, requeued>>

recordVars == <<records, before>>

sceneVars == <<scenes, projectScenes, scall>>

quotaVars == <<videosThisMonth, accepted, qpc, snapshot, retryVars, sceneStatus,
               recordVars, sceneVars>>

envVars == <<now, args, extraction>>

vars == <<keyFilePath, jobs, files, pc, pollCount, lastPoll, thrown,
          uploadOutcome, reply, fsOk, quotaVars, envVars, counts, fileName>>

NoFile == [exists |-> FALSE, size |-> 0, origin |-> "none"]
ProviderFile(n) == [exists |-> TRUE, size |-> n, origin |-> "provider"]
PlaceholderFile == [exists |-> TRUE, size |-> PlaceholderSize, origin |-> "placeholder"]

\* the record stored by generateVideo
NewJob == [status |-> "processing", prompt |-> args.prompt,
           options |-> args.options, startTime |-> now, progress |-> 0,
           error |-> Undefined,
           completedAt |-> Undefined, videoPath |-> Undefined,
           videoUrl |-> Undefined, gcsFileName |-> Undefined]

\* what a caller may pass: a prompt, and options whose quality is absent,
\* one of the three tiers, an unknown tier, or a name every object inherits
Prompts == {"a sunset", "a city at night"}
Qualities == {Undefined, "fast", "standard", "high", "ultra", "constructor"}
ArgSets ==
  [prompt : Prompts, options : [quality : Qualities, projectId : {Undefined}]]
DefaultArgs ==
  [prompt |-> "a sunset",
   options |-> [quality |-> Undefined, projectId |-> Undefined]]
\* two requests that differ in prompt and options
ConcurrentArgs ==
  {DefaultArgs,
   [prompt |-> "a city at night",
    options |-> [quality |-> "high", projectId |-> "project_1"]]}

\* uploadVideo(localPath, options.projectId || 'default'), lines 37-38 of
\* GCSService: the key is made of the project and of Date.now() at the call
UploadFileName(job) ==
  GcsFileName(IF Truthy(job.options.projectId) THEN job.options.projectId
              ELSE "default", now)

\* a JS number: an integer, or NaN
Num(n) == [nan |-> FALSE, value |-> n]
NaN == [nan |-> TRUE, value |-> 0]

\* the own keys of `times`, and keys every object inherits from
\* Object.prototype, whose values are functions
TimesKeys == {"fast", "standard", "high"}
InheritedKeys == {"constructor"}

\* getProcessingTime(quality): times[quality] || 60; an inherited key yields
\* a function, which is truthy and is returned as it is
getProcessingTime(quality) ==
  LET times == [k \in TimesKeys |-> CASE k = "fast" -> 30
                                      [] k = "standard" -> 60
                                      [] k = "high" -> 120]
  IN IF quality \in TimesKeys THEN [kind |-> "number", value |-> times[quality]]
     ELSE IF quality \in InheritedKeys THEN [kind |-> "function", value |-> 0]
     ELSE [kind |-> "number", value |-> 60]

\* lines 441-443: Math.max(0, estimatedTotal - elapsedTime) at time `now`;
\* a function minus a number is NaN, and Math.max of NaN is NaN
EstimatedTimeRemaining(job) ==
  LET elapsedTime == (now - job.startTime) \div 1000
      quality == IF Truthy(job.options.quality) THEN job.options.quality
                 ELSE "standard"
      estimatedTotal == getProcessingTime(quality)
  IN IF estimatedTotal.kind # "number" THEN NaN
     ELSE Num(IF estimatedTotal.value - elapsedTime > 0
                THEN estimatedTotal.value - elapsedTime ELSE 0)

\* the counters of one job; they are kept only where on is set
NoCounts == [on |-> FALSE, tokens |-> 0, polls |-> 0, uploads |-> 0]
ZeroCounts == [on |-> TRUE, tokens |-> 0, polls |-> 0, uploads |-> 0]
Counted(c, t, p) ==
  IF c.on THEN [c EXCEPT !.tokens = @ + t, !.polls = @ + p] ELSE c

\* one more call of gcsService.uploadVideo
Uploading(c) == IF c.on THEN [c EXCEPT !.uploads = @ + 1] ELSE c

\* no extraction under study
NoExtraction ==
  [input |-> NoResult, ran |-> FALSE,
   output |-> [ok |-> FALSE, size |-> 0, error |-> Undefined]]

\* the caller passes DefaultArgs, the clock stands at 0, nothing is counted
InitEnv ==
  /\ now = 0
  /\ args = DefaultArgs
  /\ counts = [j \in AllJobIds |-> NoCounts]
  /\ extraction = NoExtraction

\* mint records what gcsService.getSignedUrl did inside the call: "none" when
\* it was not called, "ok" when it resolved, "threw" when it rejected
NoReply == [op |-> "none", jobId |-> "-", outcome |-> "-", status |-> "-",
            progress |-> -1, error |-> "-", videoUrl |-> "-", localPath |-> "-",
            mint |-> "-", estimatedTimeRemaining |-> Num(-1)]

ErrorReply(op, id, msg) == [NoReply EXCEPT !.op = op, !.jobId = id, !.outcome = msg]

\* the service after its constructor has run, no call made yet
InitService ==
  /\ keyFilePath \in BOOLEAN
  /\ jobs = [x \in {} |-> NewJob]
  /\ files = [j \in AllJobIds |-> NoFile]
  /\ pc = [j \in AllJobIds |-> "idle"]
  /\ pollCount = [j \in AllJobIds |-> 0]
  /\ lastPoll = [j \in AllJobIds |-> "none"]
  /\ thrown = [j \in AllJobIds |-> Undefined]
  /\ uploadOutcome = [j \in AllJobIds |-> "none"]
  /\ fileName = [j \in AllJobIds |-> Undefined]
  /\ reply = NoReply

\* a user whose usage counter is u, every accepted job so far counted, and
\* no generation request in progress
\* queueVideoGeneration not called
NotCalled == [usage |-> 0, scene |-> "none"]

\* no failVideoGeneration call made
NoFailCall == [pc |-> "idle", read |-> 0, doc |-> 0]

\* no addSceneToProject or deleteScene call made
NoSceneCall == [pc |-> "idle", kind |-> "none", sceneCount |-> 0, sceneId |-> 0]

NoScene == [exists |-> FALSE, order |-> 0]

\* a project to which n scenes were added one after the other: the k-th scene
\* added got order k - 1 (addSceneToProject, line 226)
InitProject(n) ==
  /\ scenes = [i \in SceneIds |->
        IF i <= n THEN [exists |-> TRUE, order |-> i - 1] ELSE NoScene]
  /\ projectScenes = 1..n
  /\ scall = [c \in SceneCalls |-> NoSceneCall]

InitAccount(u) ==
  /\ videosThisMonth = u
  /\ accepted = u
  /\ qpc = [r \in Requests |-> "idle"]
  /\ snapshot = [r \in Requests |-> 0]
  /\ jobDoc = [status |-> "processing", retryCount |-> 0]
  /\ fcall = [c \in FailCalls |-> NoFailCall]
  /\ requeued = 0
  /\ sceneStatus = "pending"
  /\ records = [r \in Requests |-> "none"]
  /\ before = [r \in Requests |-> NotCalled]

InitUser(u) == InitAccount(u) /\ InitProject(0)

Init == InitService /\ fsOk = TRUE /\ InitUser(0) /\ InitEnv

\* ------------------------------------------------ updates of a job record
\* lines 82-83
Started(job) == [job EXCEPT !.progress = 10, !.status = "processing"]

\* line 189: Math.min(20 + Math.floor((pollCount / maxPolls) * 70), 90)
Min(a, b) == IF a < b THEN a ELSE b
PollProgress_NoBase(k) == Min((k * 70) \div maxPolls, 90)
PollProgress_RoundsUp(k) == Min(20 + ((k * 70 + maxPolls - 1) \div maxPolls), 90)
PollProgress(k) == Min(20 + ((k * 70) \div maxPolls), 90)

\* line 151: the loop condition once the submission was not done
LoopContinues_OffByOne(k) == k <= maxPolls
LoopContinues(k) == k < maxPolls

\* lines 239-243
Completed_At95(job, j) ==
  [job EXCEPT !.status = "completed",
              !.completedAt = "Date.now()", !.videoPath = LocalPath(j)]
Completed(job, j) ==
  [job EXCEPT !.progress = 100, !.status = "completed",
              !.completedAt = "Date.now()", !.videoPath = LocalPath(j)]

\* the upload result stored together with a new start time
UploadOk_RestartsClock(job, key) ==
  [job EXCEPT !.gcsFileName = key, !.videoUrl = UploadSignedUrl,
              !.startTime = now]

\* lines 251-252 and 257-258
UploadOk(job, key) ==
  [job EXCEPT !.gcsFileName = key, !.videoUrl = UploadSignedUrl]
UploadFailed_MarksFailed(job) ==
  [job EXCEPT !.videoUrl = Null, !.gcsFileName = Null, !.status = "failed"]
UploadFailed(job) == [job EXCEPT !.videoUrl = Null, !.gcsFileName = Null]

\* lines 266-267
Failed_NoReason(job, reason) == [job EXCEPT !.status = "failed"]
Failed(job, reason) == [job EXCEPT !.status = "failed", !.error = reason]

\* lines 276-277
FallbackCompleted_KeepsStatus(job) == [job EXCEPT !.progress = 100]
FallbackCompleted_ClearsError(job) ==
  [job EXCEPT !.progress = 100, !.status = "completed", !.error = Undefined]
FallbackCompleted(job) == [job EXCEPT !.progress = 100, !.status = "completed"]

\* lines 286-288 and 291
FallbackUploadOk(job, key) ==
  [job EXCEPT !.gcsFileName = key, !.videoUrl = UploadSignedUrl,
              !.videoPath = Null]
FallbackUploadFailed_NoPath(job, j) == job
FallbackUploadFailed(job, j) == [job EXCEPT !.videoPath = LocalPath(j)]

\* this.jobs.set(jobId, rec)
JobsSet(id, rec) == [x \in DOMAIN jobs \cup {id} |-> IF x = id THEN rec ELSE jobs[x]]

\* an identifier that is issued again
generateJobId_Reissued == JobId(1)

\* generateJobId(): an identifier not issued before (timestamp + random
\* suffix, taken to be collision free)
generateJobId == JobId(Cardinality(DOMAIN jobs) + 1)

\* --------------------------------------------------- the driving sequence
\* pc[j] is the await at which processVideoGeneration(j) is suspended:
\*   "getAccessToken"  lines 98-99, the OAuth client and its token
\*   "submit"          line 116, the predictLongRunning request
\*   "sleep"           line 152, the 5 second timer of a loop iteration
\*   "pollPost"        line 163, the fetchPredictOperation request
\*   "upload"          line 247, uploadVideo of the real artifact
\*   "placeholder"     line 273, createPlaceholderVideo
\*   "fallbackUpload"  line 282, uploadVideo of the placeholder
\*   "done"            the promise of processVideoGeneration is resolved
\*   "rejected"        that promise is rejected, with no handler attached
\* getClient() and getAccessToken() write nothing between them and are taken
\* as one token acquisition; inside the loop it is taken in the step of the
\* timer that precedes it.  pollCount is local to the loop and is 0 outside.

\* the placeholder written under one name for every job
CatchBlock_SharedFile(j, base, reason) ==
  /\ jobs' = [jobs EXCEPT ![j] = Failed(base, reason)]
  /\ thrown' = [thrown EXCEPT ![j] = reason]
  /\ files' = IF fsOk THEN [files EXCEPT ![JobId(1)] = PlaceholderFile] ELSE files
  /\ pc' = [pc EXCEPT ![j] = IF fsOk THEN "placeholder" ELSE "rejected"]
  /\ pollCount' = [pollCount EXCEPT ![j] = 0]

\* An error thrown while the job record is `base`: the catch block up to the
\* await of createPlaceholderVideo, whose body (mkdir, writeFileSync) has run.
\* When that body throws, the error leaves the catch block: the promise of
\* processVideoGeneration, which generateVideo does not await, is rejected.
CatchBlock(j, base, reason) ==
  /\ jobs' = [jobs EXCEPT ![j] = Failed(base, reason)]
  /\ thrown' = [thrown EXCEPT ![j] = reason]
  /\ files' = IF fsOk THEN [files EXCEPT ![j] = PlaceholderFile] ELSE files
  /\ pc' = [pc EXCEPT ![j] = IF fsOk THEN "placeholder" ELSE "rejected"]
  /\ pollCount' = [pollCount EXCEPT ![j] = 0]

\* lines 197-247 once `result` is assigned: progress 95, extraction, write,
\* completion, then the upload is awaited.
ExtractAndSave(j, result) ==
  LET at95 == [jobs[j] EXCEPT !.progress = 95]
      ex == Extract(result)
  IN IF ex.ok /\ ~fsOk THEN CatchBlock(j, at95, ErrFs)
     ELSE IF ex.ok
       THEN /\ jobs' = [jobs EXCEPT ![j] = Completed(at95, j)]
            /\ files' = [files EXCEPT ![j] = ProviderFile(ex.size)]
            /\ pc' = [pc EXCEPT ![j] = "upload"]
            /\ pollCount' = [pollCount EXCEPT ![j] = 0]
            /\ UNCHANGED thrown
       ELSE CatchBlock(j, at95, ex.error)

\* generateVideo had it stored the job before looking at the credentials
GenerateVideo_RegistersFirst ==
  /\ Cardinality(DOMAIN jobs) < MaxJobs
  /\ LET id == generateJobId IN
       /\ jobs' = JobsSet(id, IF keyFilePath THEN Started(NewJob) ELSE NewJob)
       /\ pc' = [pc EXCEPT ![id] = IF keyFilePath THEN "getAccessToken" ELSE @]
       /\ reply' = IF keyFilePath
                     THEN [NoReply EXCEPT !.op = "generateVideo", !.jobId = id,
                                          !.outcome = "ok", !.status = "queued"]
                     ELSE ErrorReply("generateVideo", "-", ErrNotConfigured)
  /\ UNCHANGED <<keyFilePath, fsOk, quotaVars, envVars, fileName, counts, files, pollCount, lastPoll,
                 thrown, uploadOutcome>>

\* lines 37-71: what a call of generateVideo does to the service, with the
\* synchronous start of processVideoGeneration up to its first await
CallGenerateVideo ==
  IF ~keyFilePath
    THEN /\ reply' = ErrorReply("generateVideo", "-", ErrNotConfigured)
         /\ UNCHANGED <<jobs, pc>>
    ELSE LET id == generateJobId IN
           /\ jobs' = JobsSet(id, Started(NewJob))
           /\ pc' = [pc EXCEPT ![id] = "getAccessToken"]
           /\ reply' = [NoReply EXCEPT !.op = "generateVideo", !.jobId = id,
                                       !.outcome = "ok", !.status = "queued"]

\* generateVideo(prompt, options) called directly, at most MaxJobs times
GenerateVideo ==
  /\ keyFilePath => Cardinality(DOMAIN jobs) < MaxJobs
  /\ CallGenerateVideo
  /\ UNCHANGED <<keyFilePath, fsOk, quotaVars, envVars, fileName, counts, files, pollCount, lastPoll,
                 thrown, uploadOutcome>>

\* generateVideo(prompt, options) called while earlier jobs are still driven,
\* at most MaxConcurrent times
GenerateVideoConcurrent ==
  /\ keyFilePath => Cardinality(DOMAIN jobs) < MaxConcurrent
  /\ CallGenerateVideo
  /\ UNCHANGED <<keyFilePath, fsOk, quotaVars, envVars, fileName, counts, files,
                 pollCount, lastPoll, thrown, uploadOutcome>>

\* the caller decides on the prompt and options of its next call
PassArgs(a) ==
  /\ a # args
  /\ args' = a
  /\ UNCHANGED <<keyFilePath, jobs, files, pc, pollCount, lastPoll, thrown,
                 uploadOutcome, reply, fsOk, quotaVars, now, extraction, counts,
                 fileName>>

\* the instants at which the clock is read, in milliseconds
ClockValues == {0, 999, 1000, 30000, 30999, 61000, 121000}

\* time passes: Date.now() moves to a later instant
Tick(t) ==
  /\ t > now
  /\ now' = t
  /\ UNCHANGED <<keyFilePath, jobs, files, pc, pollCount, lastPoll, thrown,
                 uploadOutcome, reply, fsOk, quotaVars, args, extraction, counts,
                 fileName>>

\* lines 98-99: getClient() or getAccessToken() rejects
AuthThrows(j) ==
  /\ pc[j] = "getAccessToken"
  /\ CatchBlock(j, jobs[j], ErrAuth)
  /\ reply' = NoReply
  /\ UNCHANGED <<keyFilePath, fsOk, quotaVars, envVars, fileName, counts, lastPoll, uploadOutcome>>

\* lines 99-131: the token arrives; without a token the sequence throws,
\* otherwise progress 15 and the predictLongRunning request is sent
GetAccessTokenReturns(j, hasToken) ==
  /\ pc[j] = "getAccessToken"
  /\ counts' = [counts EXCEPT ![j] = Counted(@, 1, 0)]
  /\ IF hasToken
       THEN /\ jobs' = [jobs EXCEPT ![j].progress = 15]
            /\ pc' = [pc EXCEPT ![j] = "submit"]
            /\ UNCHANGED <<files, thrown, pollCount>>
       ELSE CatchBlock(j, jobs[j], ErrNoToken)
  /\ reply' = NoReply
  /\ UNCHANGED <<keyFilePath, fsOk, quotaVars, envVars, fileName, lastPoll, uploadOutcome>>

\* line 116: the predictLongRunning request fails
SubmitThrows(j) ==
  /\ pc[j] = "submit"
  /\ CatchBlock(j, jobs[j], ErrSubmit)
  /\ reply' = NoReply
  /\ UNCHANGED <<keyFilePath, fsOk, quotaVars, envVars, fileName, counts, lastPoll, uploadOutcome>>

\* lines 133-152 had the submission result been ignored and the loop entered
SubmitReturns_AlwaysPolls(j, resp) ==
  /\ pc[j] = "submit"
  /\ lastPoll' = [lastPoll EXCEPT ![j] = IF resp.done THEN "submitDone" ELSE @]
  /\ jobs' = [jobs EXCEPT ![j].progress = 20]
  /\ pc' = [pc EXCEPT ![j] = "sleep"]
  /\ pollCount' = [pollCount EXCEPT ![j] = 0]
  /\ reply' = NoReply
  /\ UNCHANGED <<keyFilePath, fsOk, quotaVars, envVars, fileName, counts, files, thrown, uploadOutcome>>

\* lines 133-152: the submission response {done, response}
SubmitReturns(j, resp) ==
  /\ pc[j] = "submit"
  /\ lastPoll' = [lastPoll EXCEPT ![j] = IF resp.done THEN "submitDone" ELSE @]
  /\ IF resp.done
       THEN ExtractAndSave(j, resp.response)
       ELSE IF LoopContinues(0)
              THEN /\ jobs' = [jobs EXCEPT ![j].progress = 20]
                   /\ pc' = [pc EXCEPT ![j] = "sleep"]
                   /\ pollCount' = [pollCount EXCEPT ![j] = 0]
                   /\ UNCHANGED <<files, thrown>>
              ELSE CatchBlock(j, [jobs[j] EXCEPT !.progress = 20], ErrTimeout)
  /\ counts' = [counts EXCEPT ![j] = IF pc'[j] = "upload" THEN Uploading(@) ELSE @]
  /\ fileName' = [fileName EXCEPT ![j] =
        IF pc'[j] = "upload" THEN UploadFileName(jobs[j]) ELSE @]
  /\ reply' = NoReply
  /\ UNCHANGED <<keyFilePath, fsOk, quotaVars, envVars, uploadOutcome>>

\* the poll sent with the token of the submission
SleepReturns_ReusesToken(j, tokenOk) ==
  /\ pc[j] = "sleep"
  /\ counts' = [counts EXCEPT ![j] = IF tokenOk THEN Counted(@, 0, 1) ELSE @]
  /\ IF tokenOk
       THEN /\ pollCount' = [pollCount EXCEPT ![j] = @ + 1]
            /\ pc' = [pc EXCEPT ![j] = "pollPost"]
            /\ UNCHANGED <<jobs, files, thrown>>
       ELSE CatchBlock(j, jobs[j], ErrAuth)
  /\ reply' = NoReply
  /\ UNCHANGED <<keyFilePath, fsOk, quotaVars, envVars, fileName, lastPoll, uploadOutcome>>

\* lines 152-174: the timer fires, pollCount++, a fresh token is acquired and
\* the poll request is sent; or the token acquisition rejects
SleepReturns(j, tokenOk) ==
  /\ pc[j] = "sleep"
  /\ counts' = [counts EXCEPT ![j] = IF tokenOk THEN Counted(@, 1, 1) ELSE @]
  /\ IF tokenOk
       THEN /\ pollCount' = [pollCount EXCEPT ![j] = @ + 1]
            /\ pc' = [pc EXCEPT ![j] = "pollPost"]
            /\ UNCHANGED <<jobs, files, thrown>>
       ELSE CatchBlock(j, jobs[j], ErrAuth)
  /\ reply' = NoReply
  /\ UNCHANGED <<keyFilePath, fsOk, quotaVars, envVars, fileName, lastPoll, uploadOutcome>>

\* line 163: the fetchPredictOperation request fails
PollPostThrows(j) ==
  /\ pc[j] = "pollPost"
  /\ lastPoll' = [lastPoll EXCEPT ![j] = "threw"]
  /\ CatchBlock(j, jobs[j], ErrPoll)
  /\ reply' = NoReply
  /\ UNCHANGED <<keyFilePath, fsOk, quotaVars, envVars, fileName, counts, uploadOutcome>>

\* lines 176-195: the poll response {done, error, response}
PollPostReturns(j, resp) ==
  /\ pc[j] = "pollPost"
  /\ lastPoll' = [lastPoll EXCEPT ![j] =
        IF resp.done THEN (IF resp.error THEN "doneError" ELSE "done")
        ELSE IF resp.error THEN "error" ELSE "running"]
  /\ IF resp.done
       THEN IF resp.response.defined
              THEN ExtractAndSave(j, resp.response)
              ELSE CatchBlock(j, jobs[j], ErrTimeout)
       ELSE IF resp.error
              THEN CatchBlock(j, jobs[j], ErrApi)
              ELSE LET polled == [jobs[j] EXCEPT !.progress = PollProgress(pollCount[j])]
                   IN IF LoopContinues(pollCount[j])
                        THEN /\ jobs' = [jobs EXCEPT ![j] = polled]
                             /\ pc' = [pc EXCEPT ![j] = "sleep"]
                             /\ UNCHANGED <<files, thrown, pollCount>>
                        ELSE CatchBlock(j, polled, ErrTimeout)
  /\ counts' = [counts EXCEPT ![j] = IF pc'[j] = "upload" THEN Uploading(@) ELSE @]
  /\ fileName' = [fileName EXCEPT ![j] =
        IF pc'[j] = "upload" THEN UploadFileName(jobs[j]) ELSE @]
  /\ reply' = NoReply
  /\ UNCHANGED <<keyFilePath, fsOk, quotaVars, envVars, uploadOutcome>>

\* lines 246-254: uploadVideo resolves for the real artifact
UploadReturns(j) ==
  /\ pc[j] = "upload"
  /\ files[j].exists
  /\ jobs' = [jobs EXCEPT ![j] = UploadOk(@, fileName[j])]
  /\ uploadOutcome' = [uploadOutcome EXCEPT ![j] = "ok"]
  /\ pc' = [pc EXCEPT ![j] = "done"]
  /\ reply' = NoReply
  /\ UNCHANGED <<keyFilePath, fsOk, quotaVars, envVars, fileName, counts, files, pollCount, lastPoll, thrown>>

\* the failed upload thrown into the catch block of the driving sequence
UploadThrows_Fatal(j) ==
  /\ pc[j] = "upload"
  /\ CatchBlock(j, jobs[j], "Failed to upload video to GCS")
  /\ uploadOutcome' = [uploadOutcome EXCEPT ![j] = "threw"]
  /\ reply' = NoReply
  /\ UNCHANGED <<keyFilePath, fsOk, quotaVars, envVars, fileName, counts, lastPoll>>

\* lines 255-259: uploadVideo rejects for the real artifact
UploadThrows(j) ==
  /\ pc[j] = "upload"
  /\ jobs' = [jobs EXCEPT ![j] = UploadFailed(@)]
  /\ uploadOutcome' = [uploadOutcome EXCEPT ![j] = "threw"]
  /\ pc' = [pc EXCEPT ![j] = "done"]
  /\ reply' = NoReply
  /\ UNCHANGED <<keyFilePath, fsOk, quotaVars, envVars, fileName, counts, files, pollCount, lastPoll, thrown>>

\* the fallback completes the job and makes no upload call
PlaceholderReturns_NoUpload(j) ==
  /\ pc[j] = "placeholder"
  /\ jobs' = [jobs EXCEPT ![j] = FallbackCompleted(@)]
  /\ pc' = [pc EXCEPT ![j] = "done"]
  /\ counts' = counts
  /\ reply' = NoReply
  /\ UNCHANGED <<keyFilePath, fsOk, quotaVars, envVars, fileName, files, pollCount, lastPoll, thrown, uploadOutcome>>

\* lines 273-285: createPlaceholderVideo has returned; the job is forced to
\* completed and the upload of the placeholder is awaited
PlaceholderReturns(j) ==
  /\ pc[j] = "placeholder"
  /\ jobs' = [jobs EXCEPT ![j] = FallbackCompleted(@)]
  /\ pc' = [pc EXCEPT ![j] = "fallbackUpload"]
  /\ counts' = [counts EXCEPT ![j] = Uploading(@)]
  /\ fileName' = [fileName EXCEPT ![j] = UploadFileName(jobs[j])]
  /\ reply' = NoReply
  /\ UNCHANGED <<keyFilePath, fsOk, quotaVars, envVars, files, pollCount, lastPoll, thrown, uploadOutcome>>

\* lines 282-288: uploadVideo resolves for the placeholder
FallbackUploadReturns(j) ==
  /\ pc[j] = "fallbackUpload"
  /\ files[j].exists
  /\ jobs' = [jobs EXCEPT ![j] = FallbackUploadOk(@, fileName[j])]
  /\ uploadOutcome' = [uploadOutcome EXCEPT ![j] = "ok"]
  /\ pc' = [pc EXCEPT ![j] = "done"]
  /\ reply' = NoReply
  /\ UNCHANGED <<keyFilePath, fsOk, quotaVars, envVars, fileName, counts, files, pollCount, lastPoll, thrown>>

\* lines 289-292: uploadVideo rejects for the placeholder
FallbackUploadThrows(j) ==
  /\ pc[j] = "fallbackUpload"
  /\ jobs' = [jobs EXCEPT ![j] = FallbackUploadFailed(@, j)]
  /\ uploadOutcome' = [uploadOutcome EXCEPT ![j] = "threw"]
  /\ pc' = [pc EXCEPT ![j] = "done"]
  /\ reply' = NoReply
  /\ UNCHANGED <<keyFilePath, fsOk, quotaVars, envVars, fileName, counts, files, pollCount, lastPoll, thrown>>

\* one step of processVideoGeneration(j)
Drive(j) ==
  \/ AuthThrows(j)
  \/ \E hasToken \in BOOLEAN : GetAccessTokenReturns(j, hasToken)
  \/ SubmitThrows(j)
  \/ \E resp \in SubmitResponses : SubmitReturns(j, resp)
  \/ \E tokenOk \in BOOLEAN : SleepReturns(j, tokenOk)
  \/ PollPostThrows(j)
  \/ \E resp \in PollResponses : PollPostReturns(j, resp)
  \/ UploadReturns(j)
  \/ UploadThrows(j)
  \/ PlaceholderReturns(j)
  \/ FallbackUploadReturns(j)
  \/ FallbackUploadThrows(j)

\* ------------------------------------------------------ the status queries
ErrStatusNotFound == "Failed to get video status: Job not found"
ErrUrlNotFound == "Failed to retrieve video: Job not found"
ErrUrlNotReady == "Failed to retrieve video: Video not ready yet"
ErrUrlMint == "Failed to retrieve video: Failed to generate signed URL"

\* line 450: a fresh signed URL is minted for this job record
MintsUrl(job) == job.status = "completed" /\ Truthy(job.gcsFileName)

\* line 496: getVideoUrl accepts the job
IsReady_NotFailed(job) == job.status # "failed"
IsReady(job) == job.status = "completed"

\* lines 446-463: the videoUrl reported for a job record; mintOk tells whether
\* gcsService.getSignedUrl resolves
ReportedUrl(job, mintOk) ==
  IF MintsUrl(job) THEN (IF mintOk THEN FreshSignedUrl ELSE Null)
  ELSE IF Truthy(job.videoUrl) THEN job.videoUrl
  ELSE Null

\* lines 465-473: statusData
StatusData(id, job, mintOk) ==
  [op |-> "getVideoStatus", jobId |-> id, outcome |-> "ok",
   status |-> job.status, progress |-> job.progress, error |-> job.error,
   estimatedTimeRemaining |-> EstimatedTimeRemaining(job),
   videoUrl |-> ReportedUrl(job, mintOk), localPath |-> job.videoPath,
   mint |-> IF ~MintsUrl(job) THEN "none" ELSE IF mintOk THEN "ok" ELSE "threw"]

\* getVideoStatus(jobId) had it marked the job failed when minting throws
GetVideoStatus_MarksFailed(id, mintOk) ==
  /\ IF id \notin DOMAIN jobs
       THEN /\ reply' = ErrorReply("getVideoStatus", id, ErrStatusNotFound)
            /\ UNCHANGED jobs
       ELSE IF MintsUrl(jobs[id]) /\ ~mintOk
         THEN /\ jobs' = [jobs EXCEPT ![id].status = "failed"]
              /\ reply' = StatusData(id, jobs'[id], mintOk)
         ELSE /\ reply' = StatusData(id, jobs[id], mintOk)
              /\ jobs' = IF MintsUrl(jobs[id]) /\ mintOk
                           THEN [jobs EXCEPT ![id].videoUrl = FreshSignedUrl]
                           ELSE jobs
  /\ UNCHANGED <<keyFilePath, fsOk, quotaVars, envVars, fileName, counts, files, pc, pollCount, lastPoll, thrown,
                 uploadOutcome>>

\* getVideoStatus(jobId) had it let a rejected getSignedUrl reach its outer
\* catch, as getVideoUrl does
GetVideoStatus_MintFatal(id, mintOk) ==
  /\ IF id \notin DOMAIN jobs
       THEN /\ reply' = ErrorReply("getVideoStatus", id, ErrStatusNotFound)
            /\ UNCHANGED jobs
       ELSE IF MintsUrl(jobs[id]) /\ ~mintOk
         THEN /\ reply' = [ErrorReply("getVideoStatus", id,
                               "Failed to get video status: Failed to generate signed URL")
                             EXCEPT !.mint = "threw"]
              /\ UNCHANGED jobs
         ELSE /\ reply' = StatusData(id, jobs[id], mintOk)
              /\ jobs' = IF MintsUrl(jobs[id]) /\ mintOk
                           THEN [jobs EXCEPT ![id].videoUrl = FreshSignedUrl]
                           ELSE jobs
  /\ UNCHANGED <<keyFilePath, fsOk, quotaVars, envVars, fileName, counts, files, pc, pollCount, lastPoll,
                 thrown, uploadOutcome>>

\* getVideoStatus(jobId)
GetVideoStatus(id, mintOk) ==
  /\ IF id \notin DOMAIN jobs
       THEN /\ reply' = ErrorReply("getVideoStatus", id, ErrStatusNotFound)
            /\ UNCHANGED jobs
       ELSE /\ reply' = StatusData(id, jobs[id], mintOk)
            /\ jobs' = IF MintsUrl(jobs[id]) /\ mintOk
                         THEN [jobs EXCEPT ![id].videoUrl = FreshSignedUrl]
                         ELSE jobs
  /\ UNCHANGED <<keyFilePath, fsOk, quotaVars, envVars, fileName, counts, files, pc, pollCount, lastPoll, thrown,
                 uploadOutcome>>

\* lines 500-506: what getVideoUrl returns for a completed job, or that it throws
UrlValue(job, mintOk) ==
  IF Truthy(job.gcsFileName)
    THEN (IF mintOk
            THEN [outcome |-> "ok", value |-> FreshSignedUrl, mint |-> "ok"]
            ELSE [outcome |-> ErrUrlMint, value |-> "-", mint |-> "threw"])
  ELSE [outcome |-> "ok", mint |-> "none",
        value |-> IF Truthy(job.videoPath) THEN job.videoPath ELSE job.videoUrl]

\* getVideoUrl(jobId); the returned location is carried in reply.videoUrl
GetVideoUrl(id, mintOk) ==
  /\ reply' =
       IF id \notin DOMAIN jobs THEN ErrorReply("getVideoUrl", id, ErrUrlNotFound)
       ELSE IF ~IsReady(jobs[id]) THEN ErrorReply("getVideoUrl", id, ErrUrlNotReady)
       ELSE LET r == UrlValue(jobs[id], mintOk)
            IN [NoReply EXCEPT !.op = "getVideoUrl", !.jobId = id,
                               !.outcome = r.outcome, !.videoUrl = r.value,
                               !.mint = r.mint]
  /\ UNCHANGED <<keyFilePath, fsOk, quotaVars, envVars, fileName, counts, jobs, files, pc, pollCount, lastPoll,
                 thrown, uploadOutcome>>

\* ------------------------------------------------ the generation requests
\* One user on the free subscription, apiQuota.videosPerMonth at its default.
\* qpc[r] is the await at which request r is suspended.  For
\* VideoGenerationService.queueVideoGeneration:
\*   "findScene"       line 14, Scene.findById
\*   "findUser"        line 20, User.findById
\*   "saveJob"         line 41, job.save()
\*   "generateVideo"   line 44, the promise of googleVideoService.generateVideo
\*   "saveProcessing"  line 57, job.save()
\*   "updateScene"     line 60, Scene.findByIdAndUpdate
\*   "updateUser"      line 65, User.findByIdAndUpdate
\* and for the generate-video handler of videoController:
\*   "import"          line 21, the dynamic import of the service
\*   "handlerGenerate" line 23, the promise of googleVideoService.generateVideo
\* A finished request is "returned" or "threw".  Each registered job starts
\* its driving sequence; the steps of those sequences are the ones of Spec.
subscription == "free"

serviceFrame == <<keyFilePath, fsOk, files, pollCount, lastPoll, thrown,
                  uploadOutcome, envVars, counts,
                  fileName, retryVars, sceneVars>>

\* lines 21-24: the quota test on the user document that was read
QuotaExceeded(usage) == usage >= videosPerMonth /\ subscription = "free"

\* queueVideoGeneration(userId, sceneId, projectId, options) is called
QueueVideoGeneration(r) ==
  /\ qpc[r] = "idle"
  /\ qpc' = [qpc EXCEPT ![r] = "findScene"]
  /\ before' = [before EXCEPT ![r] = [usage |-> videosThisMonth, scene |-> sceneStatus]]
  /\ UNCHANGED <<serviceFrame, sceneStatus, records,
                 jobs, pc, reply, videosThisMonth, accepted, snapshot>>

\* lines 14-20: the scene is found and the user is looked up, or it is not
FindSceneReturns(r, found) ==
  /\ qpc[r] = "findScene"
  /\ qpc' = [qpc EXCEPT ![r] = IF found THEN "findUser" ELSE "threw"]
  /\ UNCHANGED <<serviceFrame, sceneStatus, records, before,
                 jobs, pc, reply, videosThisMonth, accepted, snapshot>>

\* lines 20-41: the user document arrives; quota test, then the job is saved
FindUserReturns(r) ==
  /\ qpc[r] = "findUser"
  /\ snapshot' = [snapshot EXCEPT ![r] = videosThisMonth]
  /\ qpc' = [qpc EXCEPT ![r] =
        IF QuotaExceeded(videosThisMonth) THEN "threw" ELSE "saveJob"]
  /\ UNCHANGED <<serviceFrame, sceneStatus, records, before,
                 jobs, pc, reply, videosThisMonth, accepted>>

\* lines 41-52: the job document is saved with status 'queued' and
\* googleVideoService.generateVideo is called; it registers the job or throws
\* the configuration error
SaveJobReturns(r) ==
  /\ qpc[r] = "saveJob"
  /\ records' = [records EXCEPT ![r] = "queued"]
  /\ CallGenerateVideo
  /\ accepted' = IF keyFilePath THEN accepted + 1 ELSE accepted
  /\ qpc' = [qpc EXCEPT ![r] = IF keyFilePath THEN "generateVideo" ELSE "threw"]
  /\ UNCHANGED <<serviceFrame, sceneStatus, before,
                 videosThisMonth, snapshot>>

\* lines 54-57
GenerateVideoReturns(r) ==
  /\ qpc[r] = "generateVideo"
  /\ qpc' = [qpc EXCEPT ![r] = "saveProcessing"]
  /\ UNCHANGED <<serviceFrame, sceneStatus, records, before,
                 jobs, pc, reply, videosThisMonth, accepted, snapshot>>

\* lines 57-62: the job document is saved with status 'processing'
SaveProcessingReturns(r) ==
  /\ qpc[r] = "saveProcessing"
  /\ qpc' = [qpc EXCEPT ![r] = "updateScene"]
  /\ records' = [records EXCEPT ![r] = "processing"]
  /\ UNCHANGED <<serviceFrame, sceneStatus, before,
                 jobs, pc, reply, videosThisMonth, accepted, snapshot>>

\* lines 60-67: the scene is now 'generating'; the usage update is sent with
\* the value read at line 20
UpdateSceneReturns(r) ==
  /\ qpc[r] = "updateScene"
  /\ qpc' = [qpc EXCEPT ![r] = "updateUser"]
  /\ sceneStatus' = "generating"
  /\ UNCHANGED <<serviceFrame, records, before,
                 jobs, pc, reply, videosThisMonth, accepted, snapshot>>

\* line 66: user.apiUsage.videosThisMonth + 1
NewUsage(usage) == usage + 1

\* lines 65-69: the database has applied the update
UpdateUserReturns(r) ==
  /\ qpc[r] = "updateUser"
  /\ videosThisMonth' = NewUsage(snapshot[r])
  /\ qpc' = [qpc EXCEPT ![r] = "returned"]
  /\ UNCHANGED <<serviceFrame, sceneStatus, records, before,
                 jobs, pc, reply, accepted, snapshot>>

\* a database call of queueVideoGeneration rejects; lines 70-72 rethrow
DbThrows(r) ==
  /\ qpc[r] \in {"findScene", "findUser", "saveJob", "saveProcessing",
                  "updateScene", "updateUser"}
  /\ qpc' = [qpc EXCEPT ![r] = "threw"]
  /\ UNCHANGED <<serviceFrame, sceneStatus, records, before,
                 jobs, pc, reply, videosThisMonth, accepted, snapshot>>

\* videoController.generateVideo, lines 7-21: 400 without sceneId and prompt,
\* otherwise the service module is imported
HandleGenerateVideo(r, valid) ==
  /\ qpc[r] = "idle"
  /\ qpc' = [qpc EXCEPT ![r] = IF valid THEN "import" ELSE "returned"]
  /\ UNCHANGED <<serviceFrame, sceneStatus, records, before,
                 jobs, pc, reply, videosThisMonth, accepted, snapshot>>

\* videoController.generateVideo, lines 21-31: googleVideoService.generateVideo
\* is called
ImportReturns(r) ==
  /\ qpc[r] = "import"
  /\ CallGenerateVideo
  /\ accepted' = IF keyFilePath THEN accepted + 1 ELSE accepted
  /\ qpc' = [qpc EXCEPT ![r] = IF keyFilePath THEN "handlerGenerate" ELSE "threw"]
  /\ UNCHANGED <<serviceFrame, sceneStatus, records, before,
                 videosThisMonth, snapshot>>

\* videoController.generateVideo, lines 33-40: the 202 response
HandlerGenerateReturns(r) ==
  /\ qpc[r] = "handlerGenerate"
  /\ qpc' = [qpc EXCEPT ![r] = "returned"]
  /\ UNCHANGED <<serviceFrame, sceneStatus, records, before,
                 jobs, pc, reply, videosThisMonth, accepted, snapshot>>

\* ---------------------------------------------------------- specifications
\* Spec: the driving sequences alone, against every provider behaviour.
Next ==
  \/ GenerateVideo
  \/ \E j \in JobIds : Drive(j)

Spec == Init /\ [][Next]_vars

\* The process keeps running and every external call eventually returns or
\* throws: each driving sequence keeps taking steps while it has one to take.
FairSpec == Spec /\ \A j \in JobIds : WF_vars(Drive(j))

\* FsSpec: the driving sequences on a filesystem that may refuse to create
\* the uploads directory or to write a file, at any time.
FsChanges ==
  /\ fsOk' = ~fsOk
  /\ UNCHANGED <<keyFilePath, jobs, files, pc, pollCount, lastPoll, thrown,
                 uploadOutcome, reply, quotaVars, envVars, counts,
                 fileName>>

InitFs == InitService /\ fsOk \in BOOLEAN /\ InitUser(0) /\ InitEnv

NextFs ==
  \/ GenerateVideo
  \/ \E j \in JobIds : Drive(j)
  \/ FsChanges

FsSpec == InitFs /\ [][NextFs]_vars

\* QuotaSpec: the generation requests of one user, interleaved at their
\* awaits, starting from any usage the quota allows.
InitQuota ==
  /\ InitService /\ fsOk = TRUE /\ InitEnv
  /\ \E u \in 0..videosPerMonth : InitUser(u)

NextQuota ==
  \E r \in Requests :
    \/ QueueVideoGeneration(r)
    \/ \E found \in BOOLEAN : FindSceneReturns(r, found)
    \/ FindUserReturns(r)
    \/ SaveJobReturns(r)
    \/ GenerateVideoReturns(r)
    \/ SaveProcessingReturns(r)
    \/ UpdateSceneReturns(r)
    \/ UpdateUserReturns(r)
    \/ DbThrows(r)
    \/ \E valid \in BOOLEAN : HandleGenerateVideo(r, valid)
    \/ ImportReturns(r)
    \/ HandlerGenerateReturns(r)

QuotaSpec == InitQuota /\ [][NextQuota]_vars

\* QuerySpec: the driving sequences together with the status queries of a
\* caller, against a provider that leaves no job polling beyond MaxQueryPolls
\* iterations (the timeout path is covered by Spec).
MaxQueryPolls == 2

NextQuery ==
  \/ GenerateVideo
  \/ \E j \in JobIds : Drive(j) /\ pollCount'[j] <= MaxQueryPolls
  \/ \E id \in QueryIds, mintOk \in BOOLEAN : GetVideoStatus(id, mintOk)
  \/ \E id \in QueryIds, mintOk \in BOOLEAN : GetVideoUrl(id, mintOk)

QuerySpec == Init /\ [][NextQuery]_vars

\* ------------------------------------------- the extraction on its own
\* the videos lists and predictions lists a terminal result may carry
VideoLists ==
  {AbsentList, EmptyList} \cup {ListOf(VideoObject(f)) : f \in FieldValues}
PredictionLists ==
  {AbsentList, EmptyList}
  \cup {ListOf(Prediction(v, f)) : v \in FieldValues, f \in FieldValues}

\* every terminal result built from them, and the missing result
ExtractionInputs ==
  {NoResult} \cup {Result(v, p) : v \in VideoLists, p \in PredictionLists}

\* lines 197-237 applied to the result under study
ExtractArtifact ==
  /\ ~extraction.ran
  /\ extraction' = [extraction EXCEPT !.ran = TRUE, !.output = Extract(extraction.input)]
  /\ UNCHANGED <<keyFilePath, jobs, files, pc, pollCount, lastPoll, thrown,
                 uploadOutcome, reply, fsOk, quotaVars, now, args, counts,
                 fileName>>

InitExtract ==
  /\ InitService /\ fsOk = TRUE /\ InitUser(0)
  /\ now = 0
  /\ args = DefaultArgs
  /\ counts = [j \in AllJobIds |-> NoCounts]
  /\ \E r \in ExtractionInputs : extraction = [NoExtraction EXCEPT !.input = r]

NextExtract == ExtractArtifact

ExtractSpec == InitExtract /\ [][NextExtract]_vars

\* ------------------------------------ status queries while time passes
\* jobs of every quality are created at any instant and asked about later
NextClock ==
  \/ \E a \in ArgSets : PassArgs(a)
  \/ \E t \in ClockValues : Tick(t)
  \/ GenerateVideo
  \/ \E id \in QueryIds, mintOk \in BOOLEAN : GetVideoStatus(id, mintOk)

ClockSpec == Init /\ [][NextClock]_vars

\* ------------------------------------ driver and queries while time passes
NextTimedQuery ==
  \/ \E a \in ConcurrentArgs : PassArgs(a)
  \/ \E t \in ClockValues : Tick(t)
  \/ NextQuery

TimedQuerySpec == Init /\ [][NextTimedQuery]_vars

\* ------------------------------------------------ jobs running side by side
NextConcurrent ==
  \/ \E a \in ConcurrentArgs : PassArgs(a)
  \/ GenerateVideoConcurrent
  \/ \E j \in ConcurrentIds : Drive(j) /\ pollCount'[j] <= MaxQueryPolls

ConcurrentSpec == Init /\ [][NextConcurrent]_vars

\* ------------------------------------- addSceneToProject and deleteScene
\* scall[c].pc is the await at which call c is suspended.  For
\* addSceneToProject (part_002, lines 212-248):
\*   "findProject"     line 214, Project.findById
\*   "countDocuments"  line 219, Scene.countDocuments({ projectId })
\*   "saveScene"       line 240, scene.save()
\*   "saveProject"     line 242, project.save()
\* and for deleteScene (lines 262-281):
\*   "findScene"       line 264, Scene.findById
\*   "pull"            line 270, Project.findByIdAndUpdate with $pull
\*   "deleteScene"     line 275, Scene.findByIdAndDelete
sceneFrame ==
  <<keyFilePath, jobs, files, pc, pollCount, lastPoll, thrown, uploadOutcome,
    reply, fsOk, envVars, counts, fileName, videosThisMonth, accepted, qpc,
    snapshot, recordVars, retryVars, sceneStatus>>

\* Scene.countDocuments({ projectId })
CountDocuments == Cardinality({i \in SceneIds : scenes[i].exists})

\* the _id of the scene that call c creates
NewSceneId(c) == MaxInitialScenes + c

\* addSceneToProject(projectId, sceneData) is called: line 214
AddSceneToProject(c) ==
  /\ scall[c].pc = "idle"
  /\ scall' = [scall EXCEPT ![c] = [@ EXCEPT !.pc = "findProject", !.kind = "add"]]
  /\ UNCHANGED <<sceneFrame, scenes, projectScenes>>

\* lines 214-219: the project is found, the scenes are counted
AddFindProjectReturns(c) ==
  /\ scall[c].pc = "findProject"
  /\ scall' = [scall EXCEPT ![c].pc = "countDocuments"]
  /\ UNCHANGED <<sceneFrame, scenes, projectScenes>>

\* lines 219-240: the count arrives; the scene is built with order sceneCount
\* and its save is sent
AddCountReturns(c) ==
  /\ scall[c].pc = "countDocuments"
  /\ scall' = [scall EXCEPT ![c] = [@ EXCEPT !.pc = "saveScene",
                                              !.sceneCount = CountDocuments,
                                              !.sceneId = NewSceneId(c)]]
  /\ UNCHANGED <<sceneFrame, scenes, projectScenes>>

\* lines 240-242: the scene document is stored; project.scenes.push, then
\* project.save() is sent
AddSaveSceneReturns(c) ==
  /\ scall[c].pc = "saveScene"
  /\ scenes' = [scenes EXCEPT ![scall[c].sceneId] =
        [exists |-> TRUE, order |-> scall[c].sceneCount]]
  /\ scall' = [scall EXCEPT ![c].pc = "saveProject"]
  /\ UNCHANGED <<sceneFrame, projectScenes>>

\* lines 242-244: the pushed scene id is stored in the project
AddSaveProjectReturns(c) ==
  /\ scall[c].pc = "saveProject"
  /\ projectScenes' = projectScenes \cup {scall[c].sceneId}
  /\ scall' = [scall EXCEPT ![c].pc = "returned"]
  /\ UNCHANGED <<sceneFrame, scenes>>

\* deleteScene(sceneId) is called: line 264
DeleteScene(c, id) ==
  /\ scall[c].pc = "idle"
  /\ scall' = [scall EXCEPT ![c] = [@ EXCEPT !.pc = "findScene", !.kind = "delete",
                                              !.sceneId = id]]
  /\ UNCHANGED <<sceneFrame, scenes, projectScenes>>

\* lines 264-270: 'Scene not found', or the $pull is sent
DeleteFindSceneReturns(c) ==
  /\ scall[c].pc = "findScene"
  /\ scall' = [scall EXCEPT ![c].pc =
        IF scenes[scall[c].sceneId].exists THEN "pull" ELSE "threw"]
  /\ UNCHANGED <<sceneFrame, scenes, projectScenes>>

\* lines 270-275: the id is pulled from project.scenes
DeletePullReturns(c) ==
  /\ scall[c].pc = "pull"
  /\ projectScenes' = projectScenes \ {scall[c].sceneId}
  /\ scall' = [scall EXCEPT ![c].pc = "deleteScene"]
  /\ UNCHANGED <<sceneFrame, scenes>>

\* lines 275-277: the scene document is deleted; no other scene is touched
DeleteSceneReturns(c) ==
  /\ scall[c].pc = "deleteScene"
  /\ scenes' = [scenes EXCEPT ![scall[c].sceneId] = NoScene]
  /\ scall' = [scall EXCEPT ![c].pc = "returned"]
  /\ UNCHANGED <<sceneFrame, projectScenes>>

\* a database call of addSceneToProject or deleteScene rejects; lines 245-247
\* and 278-280 rethrow
SceneDbThrows(c) ==
  /\ scall[c].pc \in {"findProject", "countDocuments", "saveScene", "saveProject",
                       "findScene", "pull", "deleteScene"}
  /\ scall' = [scall EXCEPT ![c].pc = "threw"]
  /\ UNCHANGED <<sceneFrame, scenes, projectScenes>>

InitScene ==
  /\ InitService /\ fsOk = TRUE /\ InitEnv /\ InitAccount(0)
  /\ \E n \in 0..MaxInitialScenes : InitProject(n)

NextScene ==
  \E c \in SceneCalls :
    \/ AddSceneToProject(c)
    \/ AddFindProjectReturns(c)
    \/ AddCountReturns(c)
    \/ AddSaveSceneReturns(c)
    \/ AddSaveProjectReturns(c)
    \/ \E id \in SceneIds : DeleteScene(c, id)
    \/ DeleteFindSceneReturns(c)
    \/ DeletePullReturns(c)
    \/ DeleteSceneReturns(c)
    \/ SceneDbThrows(c)

SceneSpec == InitScene /\ [][NextScene]_vars

\* ----------------------------------------------- failVideoGeneration
\* every variable but those of failVideoGeneration
failFrame ==
  <<keyFilePath, jobs, files, pc, pollCount, lastPoll, thrown, uploadOutcome,
    reply, fsOk, envVars, counts, fileName, videosThisMonth, accepted, qpc,
    snapshot, recordVars, sceneVars>>

\* failVideoGeneration(jobId, errorMessage) is called: line 139 sends
\* VideoGenerationJob.findById
FailVideoGeneration(c) ==
  /\ fcall[c].pc = "idle"
  /\ fcall' = [fcall EXCEPT ![c].pc = "findById"]
  /\ UNCHANGED <<failFrame, jobDoc, requeued, sceneStatus>>

\* line 139: the document arrives, retryCount + 1 is computed from it and
\* findByIdAndUpdate is sent with that value
FailFindByIdReturns(c) ==
  /\ fcall[c].pc = "findById"
  /\ fcall' = [fcall EXCEPT ![c].pc = "update", ![c].read = jobDoc.retryCount]
  /\ UNCHANGED <<failFrame, jobDoc, requeued, sceneStatus>>

\* retryCount: (...).retryCount + 1
NewRetryCount(read) == read + 1

\* lines 133-142: the database has applied the update and returns the new
\* document; Scene.findByIdAndUpdate is sent
FailUpdateReturns(c) ==
  /\ fcall[c].pc = "update"
  /\ jobDoc' = [status |-> "failed", retryCount |-> NewRetryCount(fcall[c].read)]
  /\ fcall' = [fcall EXCEPT ![c].pc = "updateScene",
                            ![c].doc = NewRetryCount(fcall[c].read)]
  /\ UNCHANGED <<failFrame, requeued, sceneStatus>>

\* lines 145-156: the scene is marked failed; if the returned document has
\* retries left its status is set to queued and it is saved
FailUpdateSceneReturns(c) ==
  /\ fcall[c].pc = "updateScene"
  /\ sceneStatus' = "failed"
  /\ fcall' = [fcall EXCEPT ![c].pc =
        IF fcall[c].doc < maxRetries THEN "save" ELSE "returned"]
  /\ UNCHANGED <<failFrame, jobDoc, requeued>>

\* line 154: job.save() has written the modified path, status
FailSaveReturns(c) ==
  /\ fcall[c].pc = "save"
  /\ jobDoc' = [jobDoc EXCEPT !.status = "queued"]
  /\ requeued' = requeued + 1
  /\ fcall' = [fcall EXCEPT ![c].pc = "returned"]
  /\ UNCHANGED <<failFrame, sceneStatus>>

\* a database call of failVideoGeneration rejects; lines 158-160 rethrow
FailDbThrows(c) ==
  /\ fcall[c].pc \in {"findById", "update", "updateScene", "save"}
  /\ fcall' = [fcall EXCEPT ![c].pc = "threw"]
  /\ UNCHANGED <<failFrame, jobDoc, requeued, sceneStatus>>

NextRetry ==
  \E c \in FailCalls :
    \/ FailVideoGeneration(c)
    \/ FailFindByIdReturns(c)
    \/ FailUpdateReturns(c)
    \/ FailUpdateSceneReturns(c)
    \/ FailSaveReturns(c)
    \/ FailDbThrows(c)

RetrySpec == Init /\ [][NextRetry]_vars

\* ------------------------------- jobs side by side while time passes
\* two instants one millisecond apart at which uploads may start
UploadInstants == {0, 1}

NextStorage ==
  \/ \E a \in ConcurrentArgs : PassArgs(a)
  \/ \E t \in UploadInstants : Tick(t)
  \/ GenerateVideoConcurrent
  \/ \E j \in ConcurrentIds : Drive(j) /\ pollCount'[j] <= MaxQueryPolls

StorageSpec == Init /\ [][NextStorage]_vars

\* ------------------------------------ the driving sequence, calls counted
InitAudit ==
  /\ InitService /\ fsOk = TRUE /\ InitUser(0)
  /\ now = 0
  /\ args = DefaultArgs
  /\ counts = [j \in AllJobIds |-> ZeroCounts]
  /\ extraction = NoExtraction

\* the provider answers within MaxAuditPolls polls, so that the counters of
\* finished jobs stay few
NextAudit ==
  \/ GenerateVideo
  \/ \E j \in JobIds : Drive(j) /\ pollCount'[j] <= MaxAuditPolls

AuditSpec == InitAudit /\ [][NextAudit]_vars

\* ------------------------------------------------------------- properties
IsCompleted(j) ==
  j \in DOMAIN jobs /\ jobs[j].status = "completed" /\ jobs[j].progress = 100

\* C1: under FairSpec (the process keeps running, every external call returns
\* or throws, local writes succeed) every registered job eventually has status
\* completed and progress 100, whatever the provider answers.
C1_EveryJobCompletes ==
  \A j \in JobIds : (j \in DOMAIN jobs) ~> IsCompleted(j)

\* a job that polled to the bound, timed out and was completed by the fallback
C1_Witness ==
  \E j \in DOMAIN jobs :
    /\ IsCompleted(j)
    /\ jobs[j].error = ErrTimeout
    /\ lastPoll[j] = "running"

\* C2: a job whose submission request failed ends completed with progress
\* 100, with that failure as its error and the placeholder at its artifact path.
C2_SubmissionErrorFallsBack ==
  \A j \in DOMAIN jobs :
    (thrown[j] = ErrSubmit /\ pc[j] = "done") =>
      /\ jobs[j].status = "completed"
      /\ jobs[j].progress = 100
      /\ jobs[j].error = ErrSubmit
      /\ files[j] = PlaceholderFile

C2_Witness ==
  \E j \in DOMAIN jobs : thrown[j] = ErrSubmit /\ pc[j] = "done"

\* C3: a driving sequence never sends more than maxPolls poll requests; when
\* the maxPolls-th poll still reports running the job fails with the timeout
\* error, and a timed-out job then reaches completed with progress 100.
C3_BoundedPolling ==
  /\ [](\A j \in JobIds : pollCount[j] <= maxPolls)
  /\ [][\A j \in JobIds :
          (pc[j] = "pollPost" /\ pc'[j] # "pollPost" /\ lastPoll'[j] = "running")
            => IF pollCount[j] < maxPolls
                 THEN pc'[j] = "sleep"
                 ELSE /\ thrown'[j] = ErrTimeout
                      /\ jobs'[j].status = "failed"
                      /\ jobs'[j].error = ErrTimeout]_vars
  /\ \A j \in JobIds : (thrown[j] = ErrTimeout) ~> IsCompleted(j)

\* the maxPolls-th request is in flight
C3_Witness ==
  \E j \in DOMAIN jobs : pc[j] = "pollPost" /\ pollCount[j] = maxPolls

\* C4: progress is an integer in 0..100 and no step lowers it.
C4_MonotoneProgress ==
  /\ [](\A j \in DOMAIN jobs : jobs[j].progress \in 0..100)
  /\ [][\A j \in DOMAIN jobs : jobs'[j].progress >= jobs[j].progress]_vars

\* a job that failed by timeout with the last polled progress, before the
\* fallback raises it to 100
C4_Witness ==
  \E j \in DOMAIN jobs :
    /\ jobs[j].status = "failed"
    /\ jobs[j].progress = PollProgress(maxPolls)
    /\ jobs[j].error = ErrTimeout

\* C5: progress is 100 exactly when status is completed.
C5_HundredIffCompleted ==
  \A j \in DOMAIN jobs : (jobs[j].progress = 100) <=> (jobs[j].status = "completed")

\* a job forced to completed by the fallback, its placeholder upload pending
C5_Witness ==
  \E j \in DOMAIN jobs :
    pc[j] = "fallbackUpload" /\ jobs[j].progress = 100 /\ jobs[j].status = "completed"

\* C6: every completed job has a non-empty file at its artifact path.
C6_CompletedHasNonEmptyFile ==
  \A j \in DOMAIN jobs :
    jobs[j].status = "completed" => (files[j].exists /\ files[j].size > 0)

\* C7: once its driving sequence has finished, a completed job has its local
\* artifact path populated.
C7_FinishedJobHasLocalPath ==
  \A j \in DOMAIN jobs :
    (pc[j] = "done" /\ jobs[j].status = "completed") => Truthy(jobs[j].videoPath)

\* C8: after uploadVideo threw, for the real artifact or for the placeholder,
\* the job is completed, keeps a local path, and getVideoStatus reports a
\* null videoUrl together with that local path.
C8_UploadFailureIsNotFatal ==
  /\ \A j \in DOMAIN jobs :
       uploadOutcome[j] = "threw" =>
         /\ jobs[j].status = "completed"
         /\ jobs[j].videoPath = LocalPath(j)
         /\ \A mintOk \in BOOLEAN : StatusData(j, jobs[j], mintOk).videoUrl = Null
  /\ (reply.op = "getVideoStatus" /\ reply.outcome = "ok"
        /\ uploadOutcome[reply.jobId] = "threw") =>
       /\ reply.status = "completed"
       /\ reply.videoUrl = Null
       /\ reply.localPath = LocalPath(reply.jobId)

\* a status query answered for a job whose placeholder upload threw
C8_Witness ==
  /\ reply.op = "getVideoStatus"
  /\ reply.outcome = "ok"
  /\ uploadOutcome[reply.jobId] = "threw"
  /\ thrown[reply.jobId] # Undefined

IsStatusReply(r) == r.op = "getVideoStatus" /\ r.outcome = "ok"

\* C9: a getVideoStatus call that directly follows a getVideoStatus call for
\* the same job returns the same status and progress.
C9_StatusIsIdempotent ==
  [][(IsStatusReply(reply) /\ IsStatusReply(reply') /\ reply'.jobId = reply.jobId)
       => (reply'.status = reply.status /\ reply'.progress = reply.progress)]_vars

\* a call whose mint failed, on a job whose stored URL an earlier call re-signed
C9_Witness ==
  /\ IsStatusReply(reply)
  /\ reply.videoUrl = Null
  /\ jobs[reply.jobId].videoUrl = FreshSignedUrl

\* C10: a query for an identifier that is not registered fails with the
\* not-found error, getVideoUrl for a job that is not completed fails with
\* the not-ready error, and these calls leave the registry as it was.
C10_UnknownAndNotReadyFail ==
  [][/\ (reply'.op = "getVideoStatus" /\ reply'.jobId \notin DOMAIN jobs)
          => (reply'.outcome = ErrStatusNotFound /\ jobs' = jobs)
     /\ (reply'.op = "getVideoUrl" /\ reply'.jobId \notin DOMAIN jobs)
          => (reply'.outcome = ErrUrlNotFound /\ jobs' = jobs)
     /\ (reply'.op = "getVideoUrl" /\ reply'.jobId \in DOMAIN jobs
           /\ jobs[reply'.jobId].status # "completed")
          => (reply'.outcome = ErrUrlNotReady /\ jobs' = jobs)]_vars

\* getVideoUrl was refused for a job whose status is failed
C10_Witness ==
  /\ reply.op = "getVideoUrl"
  /\ reply.outcome = ErrUrlNotReady
  /\ jobs[reply.jobId].status = "failed"

\* C11: without provider credentials generateVideo throws the configuration
\* error, and that call registers no job and starts no driving sequence: the
\* registry stays empty and every driving sequence stays idle.
C11_NotConfiguredFailsFast ==
  /\ [](~keyFilePath => (DOMAIN jobs = {} /\ \A j \in JobIds : pc[j] = "idle"))
  /\ [][(~keyFilePath /\ reply'.op = "generateVideo")
          => (reply'.outcome = ErrNotConfigured /\ jobs' = jobs /\ pc' = pc
                /\ files' = files)]_vars

\* generateVideo was called without credentials and has thrown
C11_Witness ==
  /\ ~keyFilePath
  /\ reply = ErrorReply("generateVideo", "-", ErrNotConfigured)
  /\ DOMAIN jobs = {}

\* C12: at the moment a successful generateVideo returns status queued, the
\* registry entry of the job has status queued and progress 0.
C12_RegisteredAsQueued ==
  (reply.op = "generateVideo" /\ reply.outcome = "ok") =>
    /\ reply.status = "queued"
    /\ jobs[reply.jobId].status = "queued"
    /\ jobs[reply.jobId].progress = 0

\* C13: getVideoStatus on a registered job always returns the job's status
\* and progress; it calls getSignedUrl exactly when the job is completed with
\* a storage key, reports the minted URL when that resolves and a null URL,
\* still without failing, when that rejects.
C13_StatusSurvivesStorage ==
  [][(reply'.op = "getVideoStatus" /\ reply'.jobId \in DOMAIN jobs) =>
       LET job == jobs[reply'.jobId] IN
         /\ reply'.outcome = "ok"
         /\ reply'.status = job.status
         /\ reply'.progress = job.progress
         /\ (reply'.mint \in {"ok", "threw"})
              <=> (job.status = "completed" /\ Truthy(job.gcsFileName))
         /\ reply'.mint = "ok" => reply'.videoUrl = FreshSignedUrl
         /\ reply'.mint = "threw" => reply'.videoUrl = Null]_vars

\* a status query whose getSignedUrl call rejected
C13_Witness ==
  /\ reply.op = "getVideoStatus"
  /\ reply.mint = "threw"
  /\ reply.outcome = "ok"
  /\ reply.status = "completed"

\* C14: getVideoUrl for a completed job returns the minted signed URL when
\* minting succeeds and the local path of the job when there is no storage
\* key or minting fails; it does not throw.
C14_UrlAlwaysReturned ==
  (reply.op = "getVideoUrl" /\ reply.jobId \in DOMAIN jobs
     /\ jobs[reply.jobId].status = "completed") =>
    /\ reply.outcome = "ok"
    /\ reply.videoUrl = IF reply.mint = "ok" THEN FreshSignedUrl
                                              ELSE LocalPath(reply.jobId)

\* C15: a getVideoStatus or getVideoUrl call leaves every field of every
\* registry entry unchanged.
C15_QueriesAreReadOnly ==
  [][(reply'.op \in {"getVideoStatus", "getVideoUrl"}) => jobs' = jobs]_vars

\* C16: no driving sequence ends with its promise rejected, and none ends
\* with its job in status failed, also when the uploads directory cannot be
\* created or the placeholder file cannot be written.
C16_NoErrorEscapes ==
  \A j \in JobIds :
    /\ pc[j] # "rejected"
    /\ (j \in DOMAIN jobs /\ pc[j] \in {"done", "rejected"})
         => jobs[j].status # "failed"

\* C17: for a user on the free subscription the number of generation jobs
\* accepted never exceeds apiQuota.videosPerMonth, and once no request is in
\* progress apiUsage.videosThisMonth has been raised by one for every job
\* accepted.
C17_QuotaLimitsGeneration ==
  /\ accepted <= videosPerMonth
  /\ (\A r \in Requests : qpc[r] \in {"idle", "returned", "threw"})
       => videosThisMonth = accepted

StatusChanges ==
  {<<"queued", "processing">>, <<"processing", "completed">>,
   <<"processing", "failed">>, <<"failed", "completed">>}

\* C18: the status of a job is queued, processing, completed or failed; a
\* step changes it only along queued->processing, processing->completed,
\* processing->failed or failed->completed; and once a job is completed no
\* step changes its status or its progress.
C18_StatusTransitions ==
  /\ [](\A j \in DOMAIN jobs :
          jobs[j].status \in {"queued", "processing", "completed", "failed"})
  /\ [][\A j \in DOMAIN jobs :
          /\ jobs'[j].status # jobs[j].status
               => <<jobs[j].status, jobs'[j].status>> \in StatusChanges
          /\ jobs[j].status = "completed"
               => /\ jobs'[j].status = "completed"
                  /\ jobs'[j].progress = jobs[j].progress]_vars

\* a job that went processing -> failed -> completed and whose driving
\* sequence has ended
C18_Witness ==
  \E j \in DOMAIN jobs :
    /\ pc[j] = "done"
    /\ thrown[j] # Undefined
    /\ jobs[j].status = "completed"

\* C19: the error field is written only by the step that takes the job to
\* failed, from no error to the reason thrown; it keeps that reason ever
\* after, also when the job is forced to completed; and a job completed with
\* the provider's artifact has no error.
C19_ErrorWrittenOnce ==
  /\ [][\A j \in DOMAIN jobs :
          jobs'[j].error # jobs[j].error
            => /\ jobs[j].error = Undefined
               /\ jobs[j].status # "failed"
               /\ jobs'[j].status = "failed"
               /\ jobs'[j].error = thrown'[j]]_vars
  /\ [](\A j \in DOMAIN jobs :
          /\ thrown[j] # Undefined => jobs[j].error = thrown[j]
          /\ (jobs[j].status = "completed" /\ files[j].origin = "provider")
               => jobs[j].error = Undefined)

\* a job forced to completed that still carries the extraction failure
C19_Witness ==
  \E j \in DOMAIN jobs :
    /\ jobs[j].status = "completed"
    /\ jobs[j].progress = 100
    /\ jobs[j].error = ErrNoContent

\* C20: a job has completedAt set exactly when its status is completed,
\* whether it completed with the provider's artifact or through the fallback.
C20_CompletedAtSetOnCompletion ==
  \A j \in DOMAIN jobs :
    (jobs[j].status = "completed") <=> (jobs[j].completedAt # Undefined)

\* C23: a getVideoStatus answer with status completed carries a usable
\* location: its videoUrl or its localPath is set.
C23_CompletedStatusHasLocation ==
  (reply.op = "getVideoStatus" /\ reply.outcome = "ok"
     /\ reply.status = "completed")
    => (Truthy(reply.videoUrl) \/ Truthy(reply.localPath))

\* C25: a job's recorded reason is the timeout reason only when its latest
\* poll still reported the operation running (the bound was reached with no
\* terminal answer), and a job whose latest poll carried an explicit error
\* has the provider error as its recorded reason.
C25_TimeoutReasonOnlyOnTimeout ==
  \A j \in DOMAIN jobs :
    /\ jobs[j].error = ErrTimeout => lastPoll[j] = "running"
    /\ lastPoll[j] \in {"error", "doneError"} => jobs[j].error = ErrApi

\* C26: a driving sequence that is waiting to poll, or has a poll request in
\* flight, has had no terminal answer: its submission was not done and no
\* earlier poll reported done or an error.
C26_NoPollAfterTerminal ==
  \A j \in DOMAIN jobs :
    pc[j] \in {"sleep", "pollPost"} => lastPoll[j] \in {"none", "running"}

\* the second poll request is in flight after a first poll that reported
\* the operation still running
C26_Witness ==
  \E j \in DOMAIN jobs :
    pc[j] = "pollPost" /\ pollCount[j] = 2 /\ lastPoll[j] = "running"

\* C27: after the k-th poll that reports neither done nor an error the
\* progress is min(90, 20 + floor(70*k/120)): while the sequence waits for
\* poll k+1 and while that request is in flight, and in the failed record
\* when k = 120; throughout polling the progress is within 20..90.
C27_PollProgressFormula ==
  \A j \in DOMAIN jobs :
    LET AfterPoll(k) ==
          IF 20 + ((70 * k) \div 120) < 90 THEN 20 + ((70 * k) \div 120) ELSE 90
    IN /\ pc[j] = "sleep" => jobs[j].progress = AfterPoll(pollCount[j])
       /\ pc[j] = "pollPost" => jobs[j].progress = AfterPoll(pollCount[j] - 1)
       /\ pc[j] \in {"sleep", "pollPost"} => jobs[j].progress \in 20..90
       /\ (jobs[j].status = "failed" /\ jobs[j].error = ErrTimeout
             /\ lastPoll[j] = "running") => jobs[j].progress = AfterPoll(120)

\* the sequence waits for poll 61 with progress 55
C27_Witness ==
  \E j \in DOMAIN jobs :
    pc[j] = "sleep" /\ pollCount[j] = 60 /\ jobs[j].progress = 55

\* C24: the videos list is tried first and the predictions list second, and
\* the first of the two that carries content is the one extracted: a result
\* whose videos entry has no content and whose predictions entry has content
\* is extracted from predictions, and extraction fails only when neither list
\* carries content.  (Content is taken as any non-empty string here.)
C24_FirstShapeWithContentWins ==
  LET r == extraction.input
      out == extraction.output
      Carries(f) == f.kind = "string" /\ Len(f.chars) > 0
      videoField == r.videos.items[1].bytesBase64Encoded
      predField == PredictionField(r.predictions.items[1])
      inVideos == r.defined /\ NonEmptyList(r.videos) /\ Carries(videoField)
      inPredictions ==
        r.defined /\ NonEmptyList(r.predictions) /\ Carries(predField)
  IN extraction.ran =>
       /\ inVideos => (out.ok /\ out.size = DecodedLen(videoField.chars))
       /\ (~inVideos /\ inPredictions) =>
            (out.ok /\ out.size = DecodedLen(predField.chars))
       /\ ~out.ok => (~inVideos /\ ~inPredictions)

\* C28: every poll request is preceded by a token acquisition of its own: a
\* job that has sent n poll requests has acquired n + 1 tokens, one for the
\* submission and one per poll, whether the poll is in flight or has returned.
C28_TokenPerPoll ==
  \A j \in DOMAIN jobs :
    /\ pc[j] \in {"sleep", "pollPost"} => counts[j].polls = pollCount[j]
    /\ (pc[j] \in {"submit", "sleep", "pollPost"} \/ counts[j].polls > 0) =>
         counts[j].tokens = counts[j].polls + 1

\* the fourth poll request in flight, sent with the fifth token
C28_Witness ==
  \E j \in DOMAIN jobs :
    pc[j] = "pollPost" /\ counts[j].polls = 4 /\ counts[j].tokens = 5

\* C21: a successful generateVideo adds exactly one entry, under an identifier
\* that was not registered before; no step removes an entry or replaces the
\* entry of a registered identifier, which keeps the prompt, options and
\* start time it was created with.
C21_RegistryOnlyGrows ==
  [][/\ DOMAIN jobs \subseteq DOMAIN jobs'
     /\ Cardinality(DOMAIN jobs') <= Cardinality(DOMAIN jobs) + 1
     /\ \A j \in DOMAIN jobs :
          /\ jobs'[j].prompt = jobs[j].prompt
          /\ jobs'[j].options = jobs[j].options
          /\ jobs'[j].startTime = jobs[j].startTime
     /\ (keyFilePath /\ CallGenerateVideo) =>
          /\ reply'.jobId \notin DOMAIN jobs
          /\ DOMAIN jobs' = DOMAIN jobs \cup {reply'.jobId}
          /\ jobs'[reply'.jobId].prompt = args.prompt
     /\ ~CallGenerateVideo => DOMAIN jobs' = DOMAIN jobs]_vars

\* a second job registered after the first one finished, each with the
\* prompt of its own request
C21_Witness ==
  /\ DOMAIN jobs = {JobId(1), JobId(2)}
  /\ pc[JobId(1)] = "done"
  /\ reply.op = "generateVideo" /\ reply.jobId = JobId(2)
  /\ jobs[JobId(1)].prompt # jobs[JobId(2)].prompt

\* C22: with several jobs running, an entry and an artifact file are written
\* only in a step of the driving sequence of their own job; one sequence is
\* started per registered identifier and none is started twice.
C22_SingleWriter ==
  [][\A k \in AllJobIds :
       /\ (k \in DOMAIN jobs /\ jobs'[k] # jobs[k]) => pc'[k] # pc[k]
       /\ files'[k] # files[k] => pc'[k] # pc[k]
       /\ pc'[k] # pc[k] => \A m \in AllJobIds \ {k} : pc'[m] = pc[m]
       /\ pc'[k] # pc[k] =>
            IF pc'[k] = "getAccessToken"
              THEN pc[k] = "idle" /\ k \notin DOMAIN jobs /\ k \in DOMAIN jobs'
              ELSE pc[k] # "idle"
       /\ (k \in DOMAIN jobs') <=> (pc'[k] # "idle")]_vars

\* two driving sequences suspended at different awaits, the second with its
\* placeholder written and the first with no file yet
C22_Witness ==
  /\ DOMAIN jobs = {JobId(1), JobId(2)}
  /\ pc[JobId(1)] = "pollPost" /\ ~files[JobId(1)].exists
  /\ pc[JobId(2)] = "fallbackUpload" /\ files[JobId(2)].exists

\* C30: a getVideoStatus call made at time now answers
\* estimatedTimeRemaining = max(0, T - whole seconds since startTime), with
\* T = 30 for fast, 60 for standard, 120 for high and 60 for an absent or
\* unknown quality; the value lies in 0..T and does not grow from one call to
\* the next call for the same job.
C30_EstimatedTimeRemaining ==
  [][(reply'.op = "getVideoStatus" /\ reply'.outcome = "ok"
        /\ now' = now /\ args' = args) =>
       LET job == jobs[reply'.jobId]
           T == CASE job.options.quality = "fast" -> 30
                  [] job.options.quality = "standard" -> 60
                  [] job.options.quality = "high" -> 120
                  [] OTHER -> 60
           elapsed == (now - job.startTime) \div 1000
           answer == reply'.estimatedTimeRemaining
       IN /\ ~answer.nan
          /\ answer.value = (IF T - elapsed > 0 THEN T - elapsed ELSE 0)
          /\ answer.value \in 0..T
          /\ (reply.op = "getVideoStatus" /\ reply.outcome = "ok"
                /\ reply.jobId = reply'.jobId) =>
               answer.value <= reply.estimatedTimeRemaining.value]_vars

\* C29: a job is created with the prompt and options of its request and the
\* time of the call, and no later step, of the driving sequence or of a status
\* or URL query, changes its prompt, options or startTime.
C29_RequestFieldsFixed ==
  [][\A j \in DOMAIN jobs' :
       IF j \in DOMAIN jobs
         THEN /\ jobs'[j].prompt = jobs[j].prompt
              /\ jobs'[j].options = jobs[j].options
              /\ jobs'[j].startTime = jobs[j].startTime
         ELSE /\ jobs'[j].prompt = args.prompt
              /\ jobs'[j].options = args.options
              /\ jobs'[j].startTime = now]_vars

\* a job created after time 0, finished and then asked about at a later time,
\* when the caller has other arguments at hand
C29_Witness ==
  \E j \in DOMAIN jobs :
    /\ pc[j] = "done" /\ jobs[j].status = "completed"
    /\ reply.op = "getVideoStatus" /\ reply.jobId = j /\ reply.status = "completed"
    /\ jobs[j].startTime > 0 /\ now > jobs[j].startTime
    /\ jobs[j].prompt # args.prompt /\ jobs[j].options # args.options

\* C31: every completed job has had exactly one upload call made for it,
\* whether it was completed with the real artifact or with the placeholder,
\* no job has more than one, and the call is made only when the local file
\* of the job is written.
C31_OneUploadPerCompletedJob ==
  \A j \in DOMAIN jobs :
    /\ counts[j].uploads <= 1
    /\ jobs[j].status = "completed" => counts[j].uploads = 1
    /\ counts[j].uploads = 1 => files[j].exists
    /\ uploadOutcome[j] # "none" => counts[j].uploads = 1

\* a job that failed, was completed with the placeholder and whose one
\* upload has returned
C31_Witness ==
  \E j \in DOMAIN jobs :
    /\ pc[j] = "done" /\ jobs[j].status = "completed"
    /\ thrown[j] # Undefined /\ files[j].origin = "placeholder"
    /\ counts[j].uploads = 1 /\ uploadOutcome[j] = "ok"

\* C32: once the decoded artifact of a job is written, no step writes the
\* file of that job again, and the job is completed with no error recorded
\* and nothing thrown, whatever fails afterwards (upload, filesystem).
C32_RealArtifactIsKept ==
  [][\A j \in DOMAIN jobs' :
       /\ files'[j].origin = "provider" =>
            /\ jobs'[j].status = "completed"
            /\ jobs'[j].error = Undefined
            /\ thrown'[j] = Undefined
            /\ pc'[j] \in {"upload", "done"}
       /\ (j \in DOMAIN jobs /\ files[j].origin = "provider") =>
            files'[j] = files[j]]_vars

\* the upload of a real artifact threw while the filesystem refuses writes,
\* and the job keeps its artifact and has no error
C32_Witness ==
  \E j \in DOMAIN jobs :
    /\ files[j].origin = "provider" /\ uploadOutcome[j] = "threw"
    /\ pc[j] = "done" /\ ~fsOk
    /\ jobs[j].status = "completed" /\ jobs[j].error = Undefined

\* C33: two different jobs never record the same storage key, also when they
\* belong to the same project and their uploads start at the same instant.
C33_DistinctStorageKeys ==
  \A j \in DOMAIN jobs : \A k \in DOMAIN jobs \ {j} :
    (Truthy(jobs[j].gcsFileName) /\ Truthy(jobs[k].gcsFileName)) =>
      jobs[j].gcsFileName # jobs[k].gcsFileName

\* C34: when every failVideoGeneration call made so far has returned, the
\* persisted retryCount is the number of calls, the status is queued if that
\* count is below maxRetries and failed otherwise, and the job was queued
\* again at most maxRetries - 1 times.
C34_RetryCountCountsCalls ==
  LET returned == {c \in FailCalls : fcall[c].pc = "returned"}
  IN (returned # {} /\ \A c \in FailCalls : fcall[c].pc \in {"idle", "returned"}) =>
       /\ jobDoc.retryCount = Cardinality(returned)
       /\ jobDoc.status =
            (IF jobDoc.retryCount < maxRetries THEN "queued" ELSE "failed")
       /\ requeued <= maxRetries - 1

\* C35: when a queueVideoGeneration call has failed, with no other generation
\* request made in the meantime, the persistent state is the one before the
\* call: the request has left no VideoGenerationJob document, the scene's
\* videoStatus and the user's videosThisMonth are what they were.
C35_FailedQueueLeavesNoTrace ==
  \A r \in Requests :
    ( /\ before[r] # NotCalled
      /\ qpc[r] = "threw"
      /\ \A s \in Requests \ {r} : qpc[s] = "idle" ) =>
        /\ records[r] = "none"
        /\ sceneStatus = before[r].scene
        /\ videosThisMonth = before[r].usage

\* C36: once every addSceneToProject and deleteScene call made on the project
\* has finished, the scenes that remain have pairwise distinct order values.
C36_DistinctOrders ==
  (\A c \in SceneCalls : scall[c].pc \in {"idle", "returned", "threw"}) =>
    \A i, k \in SceneIds :
      (i # k /\ scenes[i].exists /\ scenes[k].exists) =>
        scenes[i].order # scenes[k].order

====
